---------------------------- MODULE Spec2Model ----------------------------
(***************************************************************************)
(* A model of tools/pack_glb.py: GLB.pack() (buffer consolidation, image   *)
(* consolidation, finalisation) and GLB.write() (the GLB container), run   *)
(* from pack()/main().                                                     *)
(*                                                                         *)
(* Python values are represented as follows.                               *)
(*   int   a pair <<hi, lo>> standing for hi * 2^16 + lo, 0 <= lo < 2^16:  *)
(*         Python integers are unbounded and the code compares them with   *)
(*         2**32 - 1, which a single TLC integer cannot hold. A negative   *)
(*         int has a negative hi.                                          *)
(*   str   a tuple of one-character strings.                               *)
(*   bytes a tuple of integers in 0..255.                                  *)
(*   dict  a tuple of <<key, value>> pairs in insertion order.             *)
(*   list  a tuple.                                                        *)
(***************************************************************************)
EXTENDS Integers, Sequences, FiniteSets, TLC

(***************************************************************************)
(* Python int                                                              *)
(***************************************************************************)
LIMB == 2^16

I(n) == <<n \div LIMB, n % LIMB>>

IntAdd(a, b) ==
    LET s == a[2] + b[2]
    IN  <<a[1] + b[1] + (s \div LIMB), s % LIMB>>

\* a - b for a >= b
IntSub(a, b) ==
    IF a[2] >= b[2] THEN <<a[1] - b[1], a[2] - b[2]>>
                    ELSE <<a[1] - b[1] - 1, a[2] + LIMB - b[2]>>

IntLT(a, b) == a[1] < b[1] \/ (a[1] = b[1] /\ a[2] < b[2])

IntLE(a, b) == a = b \/ IntLT(a, b)

\* -a
IntNeg(a) == IF a[2] = 0 THEN <<-a[1], 0>> ELSE <<-a[1] - 1, LIMB - a[2]>>

\* value & ~3: LIMB is a multiple of 4, so only the low limb changes
IntAndNot3(a) == <<a[1], a[2] - (a[2] % 4)>>

\* divmod(a, 10) for a >= 0, by long division over the two limbs
IntDivMod10(a) ==
    LET qh == a[1] \div 10
        t  == (a[1] % 10) * LIMB + a[2]
        ql == t \div 10
    IN  [q |-> <<qh + (ql \div LIMB), ql % LIMB>>, r |-> t % 10]

\* the value of a small int as a plain number (a padding count, an index)
Small(a) == a[2]

RECURSIVE IntSum(_)
IntSum(s) == IF s = <<>> THEN I(0) ELSE IntAdd(s[1], IntSum(Tail(s)))

(***************************************************************************)
(* Python str and bytes                                                    *)
(***************************************************************************)
\* U+0020 .. U+005F
PrintableLow ==
    <<" ", "!", "\"", "#", "$", "%", "&", "'", "(", ")", "*", "+", ",", "-", ".", "/",
      "0", "1", "2", "3", "4", "5", "6", "7", "8", "9", ":", ";", "<", "=", ">", "?",
      "@", "A", "B", "C", "D", "E", "F", "G", "H", "I", "J", "K", "L", "M", "N", "O",
      "P", "Q", "R", "S", "T", "U", "V", "W", "X", "Y", "Z", "[", "\\", "]", "^", "_">>

\* U+0061 .. U+007E
PrintableHigh ==
    <<"a", "b", "c", "d", "e", "f", "g", "h", "i", "j", "k", "l", "m", "n", "o",
      "p", "q", "r", "s", "t", "u", "v", "w", "x", "y", "z", "{", "|", "}", "~">>

\* the code point of a printable ASCII character
Ord == [c \in {PrintableLow[k] : k \in 1..Len(PrintableLow)}
              \cup {PrintableHigh[k] : k \in 1..Len(PrintableHigh)} |->
            IF \E k \in 1..Len(PrintableLow) : PrintableLow[k] = c
            THEN 31 + (CHOOSE k \in 1..Len(PrintableLow) : PrintableLow[k] = c)
            ELSE 96 + (CHOOSE k \in 1..Len(PrintableHigh) : PrintableHigh[k] = c)]

\* str(d) for a decimal digit d
Digit(d) == PrintableLow[17 + d]

\* str.encode("utf-8"): an ASCII character is the one byte of its code point
Encode(s) == [k \in 1..Len(s) |-> Ord[s[k]]]

Repeat(x, n) == [k \in 1..n |-> x]

RECURSIVE Flatten(_)
Flatten(ss) == IF ss = <<>> THEN <<>> ELSE ss[1] \o Flatten(Tail(ss))

\* index of the first character of s that lies in cs, or 0
Find(s, cs) ==
    IF \E k \in 1..Len(s) : s[k] \in cs
    THEN CHOOSE k \in 1..Len(s) : s[k] \in cs /\ \A j \in 1..(k - 1) : s[j] \notin cs
    ELSE 0

s_buffers     == <<"b", "u", "f", "f", "e", "r", "s">>
s_bufferViews == <<"b", "u", "f", "f", "e", "r", "V", "i", "e", "w", "s">>
s_images      == <<"i", "m", "a", "g", "e", "s">>
s_byteLength  == <<"b", "y", "t", "e", "L", "e", "n", "g", "t", "h">>
s_byteOffset  == <<"b", "y", "t", "e", "O", "f", "f", "s", "e", "t">>
s_buffer      == <<"b", "u", "f", "f", "e", "r">>
s_bufferView  == <<"b", "u", "f", "f", "e", "r", "V", "i", "e", "w">>
s_mimeType    == <<"m", "i", "m", "e", "T", "y", "p", "e">>
s_uri         == <<"u", "r", "i">>
s_asset       == <<"a", "s", "s", "e", "t">>
s_version     == <<"v", "e", "r", "s", "i", "o", "n">>

(***************************************************************************)
(* Python dict: insertion-ordered <<key, value>> pairs                     *)
(***************************************************************************)
Has(d, k) == \E n \in 1..Len(d) : d[n][1] = k

Get(d, k) == d[CHOOSE n \in 1..Len(d) : d[n][1] = k][2]

\* d[k] = v: an existing key keeps its place, a new key goes last
Set(d, k, v) ==
    IF Has(d, k) THEN [n \in 1..Len(d) |-> IF d[n][1] = k THEN <<k, v>> ELSE d[n]]
                 ELSE Append(d, <<k, v>>)

\* del d[k]
Del(d, k) == SelectSeq(d, LAMBDA e : e[1] # k)

(***************************************************************************)
(* json.dumps(obj, separators=(",", ":")).encode("utf-8"): the bytes of    *)
(* the compact serialisation, each character encoded as it is produced.    *)
(***************************************************************************)
\* a list built element by element, as a tuple
Tuple(f) == f \o <<>>

\* the decimal digits of n >= 0
RECURSIVE JsonDigits(_)
JsonDigits(n) ==
    LET dm == IntDivMod10(n)
        d  == <<Ord[Digit(dm.r)]>>
    IN  IF dm.q = I(0) THEN d ELSE JsonDigits(dm.q) \o d

JsonInt(n) == IF n[1] < 0 THEN <<Ord["-"]>> \o JsonDigits(IntNeg(n)) ELSE JsonDigits(n)

JsonChar(c) == IF c \in {"\"", "\\"} THEN <<Ord["\\"], Ord[c]>> ELSE <<Ord[c]>>

JsonStr(s) ==
    <<Ord["\""]>> \o Flatten(Tuple([k \in 1..Len(s) |-> JsonChar(s[k])])) \o <<Ord["\""]>>

RECURSIVE JsonJoin(_)
JsonJoin(parts) ==
    IF parts = <<>> THEN <<>>
    ELSE IF Len(parts) = 1 THEN parts[1]
    ELSE parts[1] \o <<Ord[","]>> \o JsonJoin(Tail(parts))

IntKeys == {s_byteLength, s_byteOffset, s_buffer, s_bufferView}

\* an object whose values are ints or strs (a buffer, a bufferView, an image, asset)
JsonFlat(d) ==
    <<Ord["{"]>> \o
    JsonJoin(Tuple([n \in 1..Len(d) |->
                JsonStr(d[n][1]) \o <<Ord[":"]>> \o
                (IF d[n][1] \in IntKeys THEN JsonInt(d[n][2]) ELSE JsonStr(d[n][2]))]))
    \o <<Ord["}"]>>

JsonList(l) ==
    <<Ord["["]>> \o JsonJoin(Tuple([n \in 1..Len(l) |-> JsonFlat(l[n])])) \o <<Ord["]"]>>

ListKeys == {s_buffers, s_bufferViews, s_images}

JsonDumps(d) ==
    <<Ord["{"]>> \o
    JsonJoin(Tuple([n \in 1..Len(d) |->
                JsonStr(d[n][1]) \o <<Ord[":"]>> \o
                (IF d[n][1] \in ListKeys THEN JsonList(d[n][2]) ELSE JsonFlat(d[n][2]))]))
    \o <<Ord["}"]>>

(***************************************************************************)
(* urllib.parse.urlparse(url): the scheme, netloc and path components.     *)
(* The scheme is the text before the first ":" when it starts with a       *)
(* letter and holds only scheme characters; the netloc follows a leading   *)
(* "//" up to the next "/", "?" or "#"; the path ends at "#" or "?".       *)
(* (Lower-casing of the scheme and the ";params" split are left out: the   *)
(* code only tests the scheme for emptiness, and no path here holds ";".)  *)
(***************************************************************************)
Letters == {PrintableLow[k] : k \in 34..59} \cup {PrintableHigh[k] : k \in 1..26}

SchemeChars == Letters \cup {PrintableLow[k] : k \in 17..26} \cup {"+", "-", "."}

urlparse(url) ==
    LET i         == Find(url, {":"})
        hasScheme == /\ i > 1
                     /\ url[1] \in Letters
                     /\ \A k \in 1..(i - 1) : url[k] \in SchemeChars
        scheme    == IF hasScheme THEN SubSeq(url, 1, i - 1) ELSE <<>>
        rest      == IF hasScheme THEN SubSeq(url, i + 1, Len(url)) ELSE url
        hasNet    == Len(rest) >= 2 /\ rest[1] = "/" /\ rest[2] = "/"
        after     == SubSeq(rest, 3, Len(rest))
        d         == Find(after, {"/", "?", "#"})
        netloc    == IF ~hasNet THEN <<>>
                     ELSE IF d = 0 THEN after ELSE SubSeq(after, 1, d - 1)
        rest2     == IF ~hasNet THEN rest
                     ELSE IF d = 0 THEN <<>> ELSE SubSeq(after, d, Len(after))
        h         == Find(rest2, {"#"})
        rest3     == IF h = 0 THEN rest2 ELSE SubSeq(rest2, 1, h - 1)
        q         == Find(rest3, {"?"})
        path      == IF q = 0 THEN rest3 ELSE SubSeq(rest3, 1, q - 1)
    IN  [scheme |-> scheme, netloc |-> netloc, path |-> path]

\* Unsupported with "and" for "or"
UnsupportedBoth(uri) == uri.scheme # <<>> /\ uri.netloc # <<>>

\* the test of lines 73 and 97
Unsupported(uri) == uri.scheme # <<>> \/ uri.netloc # <<>>

(***************************************************************************)
(* The source directory: the files under source_dir, by relative path.     *)
(***************************************************************************)
p_a_bin       == <<"a", ".", "b", "i", "n">>
p_buf_bin     == <<"b", "u", "f", ".", "b", "i", "n">>
p_missing_bin == <<"m", "i", "s", "s", "i", "n", "g", ".", "b", "i", "n">>
p_pic_png     == <<"p", "i", "c", ".", "p", "n", "g">>
p_empty_png   == <<"e", "m", "p", "t", "y", ".", "p", "n", "g">>
u_https       == <<"h", "t", "t", "p", "s", ":", "/", "/", "e", "x", "a", "m", "p", "l", "e",
                   ".", "c", "o", "m", "/", "b", ".", "b", "i", "n">>
u_data        == <<"d", "a", "t", "a", ":", "i", "m", "a", "g", "e", "/", "p", "n", "g", ";",
                   "b", "a", "s", "e", "6", "4", ",", "A", "A", "A", "A">>

\* a.bin holds 6 bytes, buf.bin 4, pic.png 10, empty.png none; missing.bin does not exist
source_dir ==
    [p \in {p_a_bin, p_buf_bin, p_pic_png, p_empty_png} |->
        CASE p = p_a_bin     -> <<161, 162, 163, 164, 165, 166>>
          [] p = p_buf_bin   -> <<177, 178, 179, 180>>
          [] p = p_pic_png   -> <<137, 80, 78, 71, 13, 10, 26, 10, 1, 2>>
          [] p = p_empty_png -> <<>>]

Exists(path) == path \in DOMAIN source_dir

\* os.path.getsize(source_dir / path), for a path that exists
getsize(path) == I(Len(source_dir[path]))

BLOCK == 4096

\* the read loop of lines 154-158: blocks of at most BLOCK bytes until an empty read
RECURSIVE ReadBlocks(_)
ReadBlocks(content) ==
    IF Len(content) = 0 THEN <<>>
    ELSE LET n == IF Len(content) < BLOCK THEN Len(content) ELSE BLOCK
         IN  SubSeq(content, 1, n) \o ReadBlocks(SubSeq(content, n + 1, Len(content)))

(***************************************************************************)
(* align_to_4 and int.to_bytes(4, byteorder="little")                      *)
(***************************************************************************)
\* align_to_4 with 4 for 3
align_to_4_Adds4(value) == IntAndNot3(IntAdd(value, I(4)))

\* align_to_4 without the mask
align_to_4_NoMask(value) == IntAdd(value, I(3))

align_to_4(value) == IntAndNot3(IntAdd(value, I(3)))

\* to_bytes raises OverflowError for a value of 2**32 or more and for a negative value
FitsU32(v) == 0 <= v[1] /\ v[1] < LIMB

to_bytes(v) == <<v[2] % 256, v[2] \div 256, v[1] % 256, v[1] \div 256>>

\* the threshold of line 58: 2**32 - 1
U32_MAX == <<LIMB - 1, LIMB - 1>>

(***************************************************************************)
(* Input descriptions                                                      *)
(***************************************************************************)
\* the most entries (buffers, bufferViews and images together) of an input description
MaxEntries == 3

\* a declared byteLength of 2**32 - 7
BIG == <<LIMB - 1, LIMB - 7>>

BufferChoices ==
    { << <<s_byteLength, I(6)>>, <<s_uri, p_a_bin>> >>,
      << <<s_byteLength, I(4)>>, <<s_uri, p_buf_bin>> >>,
      << <<s_byteLength, I(4)>> >>,
      << <<s_uri, u_https>>, <<s_byteLength, I(6)>> >>,
      << <<s_byteLength, BIG>>, <<s_uri, p_a_bin>> >>,
      << <<s_byteLength, I(4)>>, <<s_uri, p_missing_bin>> >>,
      << <<s_byteLength, I(-4)>>, <<s_uri, p_buf_bin>> >> }

BufferViewChoices ==
    { << <<s_buffer, I(0)>>, <<s_byteLength, I(4)>> >>,
      << <<s_buffer, I(1)>>, <<s_byteOffset, I(2)>>, <<s_byteLength, I(4)>> >>,
      << <<s_buffer, I(0)>>, <<s_byteLength, I(0)>>, <<s_byteOffset, I(4)>> >> }

m_png == <<"i", "m", "a", "g", "e", "/", "p", "n", "g">>

ImageChoices ==
    { << <<s_uri, p_pic_png>>, <<s_mimeType, m_png>> >>,
      << <<s_bufferView, I(0)>>, <<s_mimeType, m_png>> >>,
      << <<s_uri, u_data>> >>,
      << <<s_mimeType, m_png>>, <<s_uri, p_empty_png>> >>,
      << <<s_uri, p_missing_bin>> >> }

Lists(S, n) == [1..n -> S]

\* what json.load returns for the input file: a description with an asset object and
\* the buffers, bufferViews and images arrays
Descriptions ==
    { << <<s_asset, << <<s_version, <<"2", ".", "0">> >> >> >>,
         <<s_buffers, bs>>, <<s_bufferViews, vs>>, <<s_images, is>> >> :
        <<bs, vs, is>> \in
            UNION { Lists(BufferChoices, nb) \X Lists(BufferViewChoices, nv)
                        \X Lists(ImageChoices, ni) :
                    <<nb, nv, ni>> \in
                        {t \in (0..MaxEntries) \X (0..MaxEntries) \X (0..MaxEntries) :
                            t[1] + t[2] + t[3] <= MaxEntries} } }

(***************************************************************************)
(* State                                                                   *)
(***************************************************************************)
VARIABLES
    gltf,            \* the description handed to pack(), as it was at the call: the
                     \* one main() loads from the input file
    description,     \* GLB.description
    bin_length,      \* GLB.bin_length
    source_files,    \* GLB.source_files
    buffer_offsets,  \* the local of _pack_buffers: buffer index -> offset
    pc,              \* where the run is
    index,           \* the index of the loop the run is in (0-based, as in Python)
    exc,             \* the exception the run ended with
    log,             \* the warnings logged
    dest,            \* the destination file
    run,             \* 1: the first invocation of main(); 2: the second, on the same
                     \* input; 3: pack() called on the description that run 1 packed
    prev             \* what the first invocation left behind

vars == <<gltf, description, bin_length, source_files, buffer_offsets, pc, index,
          exc, log, dest, run, prev>>

NoExc == [cls |-> "None", msg |-> ""]

UnsupportedReferenceError ==
    [cls |-> "GLTFError", msg |-> "support for uri not implemented"]

MalformedDescriptionError ==
    [cls |-> "GLTFError", msg |-> "Only the first buffer may omit the \"uri\" property"]

FileNotFoundError == [cls |-> "FileNotFoundError", msg |-> ""]

OverflowError == [cls |-> "OverflowError", msg |-> "int too big to convert"]

NegativeOverflowError ==
    [cls |-> "OverflowError", msg |-> "can't convert negative int to unsigned"]

\* what v.to_bytes(4, byteorder="little") raises for a v that does not fit
ToBytesError(v) == IF v[1] < 0 THEN NegativeOverflowError ELSE OverflowError

CapacityWarning ==
    "Packed internal buffer exceeds recommended max byte length of 2**32-1"

NoFile == [exists |-> FALSE, open |-> FALSE, data |-> <<>>]

\* GLB.__init__ with bin_length left as it is
GLB__init__KeepsLength(d) ==
    /\ description' = d
    /\ bin_length' = bin_length
    /\ source_files' = <<>>

\* GLB.__init__
GLB__init__(d) ==
    /\ description' = d
    /\ bin_length' = I(0)
    /\ source_files' = <<>>

Init ==
    /\ gltf \in Descriptions
    /\ description = gltf
    /\ bin_length = I(0)
    /\ source_files = <<>>
    /\ buffer_offsets = <<>>
    /\ pc = "_pack_buffers"
    /\ index = 0
    /\ exc = NoExc
    /\ log = <<>>
    /\ dest = NoFile
    /\ run = 1
    /\ prev = [exc |-> NoExc, dest |-> NoFile, log |-> <<>>]

buffers == Get(description, s_buffers)
bufferViews == Get(description, s_bufferViews)
images == Get(description, s_images)

\* an exception raised in glb.pack() (line 164): the destination is not open yet
RaiseInPack(e) ==
    /\ exc' = e
    /\ pc' = "pack_raised"
    /\ dest' = dest

\* RaiseInWrite without the close
RaiseInWriteLeavesOpen(e) ==
    /\ exc' = e
    /\ pc' = "write_raised"
    /\ dest' = dest

\* an exception raised in glb.write(f) (line 166): the with block closes the file
RaiseInWrite(e) ==
    /\ exc' = e
    /\ pc' = "write_raised"
    /\ dest' = [dest EXCEPT !.open = FALSE]

(***************************************************************************)
(* GLB._pack_buffers                                                       *)
(***************************************************************************)
\* MayOmitUri that lets no buffer omit its uri
MayOmitUriNowhere(i) == FALSE

\* MayOmitUri that lets every buffer omit its uri
MayOmitUriAnywhere(i) == TRUE

\* the test of line 79: only the first buffer may omit "uri"
MayOmitUri(i) == i = 0

\* PackBuffer that removes the uri of each buffer it has recorded
PackBufferDropsUri ==
    /\ pc = "_pack_buffers"
    /\ index < Len(buffers)
    /\ LET buffer == buffers[index + 1]
           uri    == urlparse(Get(buffer, s_uri))
       IN  IF Has(buffer, s_uri)
           THEN IF Unsupported(uri)
                THEN /\ RaiseInPack(UnsupportedReferenceError)
                     /\ UNCHANGED <<source_files, buffer_offsets, bin_length, index,
                                    description>>
                ELSE /\ source_files' = Append(source_files, uri.path)
                     /\ buffer_offsets' = buffer_offsets @@ (index :> bin_length)
                     /\ bin_length' = IntAdd(bin_length, Get(buffer, s_byteLength))
                     /\ index' = index + 1
                     /\ description' =
                            Set(description, s_buffers,
                                [buffers EXCEPT ![index + 1] = Del(buffer, s_uri)])
                     /\ UNCHANGED <<pc, exc, dest>>
           ELSE IF ~MayOmitUri(index)
                THEN /\ RaiseInPack(MalformedDescriptionError)
                     /\ UNCHANGED <<source_files, buffer_offsets, bin_length, index,
                                    description>>
                ELSE /\ bin_length' = IntAdd(bin_length, Get(buffer, s_byteLength))
                     /\ index' = index + 1
                     /\ UNCHANGED <<source_files, buffer_offsets, pc, exc, dest,
                                    description>>
    /\ UNCHANGED <<gltf, log, run, prev>>

\* PackBuffer with lines 77 and 82 exchanged: the offset is taken after the addition
PackBufferOffsetAfterAdd ==
    /\ pc = "_pack_buffers"
    /\ index < Len(buffers)
    /\ LET buffer == buffers[index + 1]
           uri    == urlparse(Get(buffer, s_uri))
       IN  IF Has(buffer, s_uri)
           THEN IF Unsupported(uri)
                THEN /\ RaiseInPack(UnsupportedReferenceError)
                     /\ UNCHANGED <<source_files, buffer_offsets, bin_length, index>>
                ELSE /\ source_files' = Append(source_files, uri.path)
                     /\ buffer_offsets' = buffer_offsets @@
                            (index :> IntAdd(bin_length, Get(buffer, s_byteLength)))
                     /\ bin_length' = IntAdd(bin_length, Get(buffer, s_byteLength))
                     /\ index' = index + 1
                     /\ UNCHANGED <<pc, exc, dest>>
           ELSE IF ~MayOmitUri(index)
                THEN /\ RaiseInPack(MalformedDescriptionError)
                     /\ UNCHANGED <<source_files, buffer_offsets, bin_length, index>>
                ELSE /\ bin_length' = IntAdd(bin_length, Get(buffer, s_byteLength))
                     /\ index' = index + 1
                     /\ UNCHANGED <<source_files, buffer_offsets, pc, exc, dest>>
    /\ UNCHANGED <<gltf, description, log, run, prev>>

\* one iteration of the loop over the buffers
PackBuffer ==
    /\ pc = "_pack_buffers"
    /\ index < Len(buffers)
    /\ LET buffer == buffers[index + 1]
           uri    == urlparse(Get(buffer, s_uri))
       IN  IF Has(buffer, s_uri)
           THEN IF Unsupported(uri)
                THEN /\ RaiseInPack(UnsupportedReferenceError)
                     /\ UNCHANGED <<source_files, buffer_offsets, bin_length, index>>
                ELSE /\ source_files' = Append(source_files, uri.path)
                     /\ buffer_offsets' = buffer_offsets @@ (index :> bin_length)
                     /\ bin_length' = IntAdd(bin_length, Get(buffer, s_byteLength))
                     /\ index' = index + 1
                     /\ UNCHANGED <<pc, exc, dest>>
           ELSE IF ~MayOmitUri(index)
                THEN /\ RaiseInPack(MalformedDescriptionError)
                     /\ UNCHANGED <<source_files, buffer_offsets, bin_length, index>>
                ELSE /\ bin_length' = IntAdd(bin_length, Get(buffer, s_byteLength))
                     /\ index' = index + 1
                     /\ UNCHANGED <<source_files, buffer_offsets, pc, exc, dest>>
    /\ UNCHANGED <<gltf, description, log, run, prev>>

\* RewriteView without line 90: the view keeps its old buffer index
RewriteViewKeepsBuffer(buffer_view, offsets) ==
    IF Get(buffer_view, s_buffer)[1] = 0
       /\ Small(Get(buffer_view, s_buffer)) \in DOMAIN offsets
    THEN LET v0 == IF Has(buffer_view, s_byteOffset) THEN buffer_view
                   ELSE Set(buffer_view, s_byteOffset, I(0))
         IN  Set(v0, s_byteOffset,
                 IntAdd(Get(v0, s_byteOffset),
                        offsets[Small(Get(buffer_view, s_buffer))]))
    ELSE buffer_view

\* RewriteView that adds the buffer's offset twice
RewriteViewTwice(buffer_view, offsets) ==
    IF Get(buffer_view, s_buffer)[1] = 0
       /\ Small(Get(buffer_view, s_buffer)) \in DOMAIN offsets
    THEN LET v0 == IF Has(buffer_view, s_byteOffset) THEN buffer_view
                   ELSE Set(buffer_view, s_byteOffset, I(0))
             o  == offsets[Small(Get(buffer_view, s_buffer))]
             v1 == Set(v0, s_byteOffset, IntAdd(IntAdd(Get(v0, s_byteOffset), o), o))
         IN  Set(v1, s_buffer, I(0))
    ELSE buffer_view

\* lines 86-90, for one bufferView
RewriteView(buffer_view, offsets) ==
    IF Get(buffer_view, s_buffer)[1] = 0
       /\ Small(Get(buffer_view, s_buffer)) \in DOMAIN offsets
    THEN LET v0 == IF Has(buffer_view, s_byteOffset) THEN buffer_view
                   ELSE Set(buffer_view, s_byteOffset, I(0))
             v1 == Set(v0, s_byteOffset,
                       IntAdd(Get(v0, s_byteOffset),
                              offsets[Small(Get(buffer_view, s_buffer))]))
         IN  Set(v1, s_buffer, I(0))
    ELSE buffer_view

\* the loop over the bufferViews, which ends _pack_buffers
RewriteBufferViews ==
    /\ pc = "_pack_buffers"
    /\ index = Len(buffers)
    /\ description' = Set(description, s_bufferViews,
                          [n \in 1..Len(bufferViews) |->
                              RewriteView(bufferViews[n], buffer_offsets)])
    /\ pc' = "_pack_images"
    /\ index' = 0
    /\ UNCHANGED <<gltf, bin_length, source_files, buffer_offsets, exc, log, dest,
                   run, prev>>

(***************************************************************************)
(* GLB._pack_images                                                        *)
(***************************************************************************)
\* ImageView with the offset taken after line 113's increment
ImageViewAfterIncrement(image_size, offset) ==
    << <<s_buffer, I(0)>>, <<s_byteLength, image_size>>,
       <<s_byteOffset, IntAdd(offset, image_size)>> >>

\* the bufferView of lines 105-109
ImageView(image_size, offset) ==
    << <<s_buffer, I(0)>>, <<s_byteLength, image_size>>, <<s_byteOffset, offset>> >>

\* RewriteImage that drops the other keys of the image with the uri
RewriteImageOnlyView(image, view_index) == << <<s_bufferView, I(view_index)>> >>

\* RewriteImage that points the image one view too far
RewriteImageNextIndex(image, view_index) ==
    Del(Set(image, s_bufferView, I(view_index + 1)), s_uri)

\* lines 103 and 111, for an image whose view goes to index view_index
RewriteImage(image, view_index) == Del(Set(image, s_bufferView, I(view_index)), s_uri)

\* PackImage with "=" for "+=" in line 113
PackImageAssigns ==
    /\ pc = "_pack_images"
    /\ index < Len(images)
    /\ LET image == images[index + 1]
           uri   == urlparse(Get(image, s_uri))
       IN  IF ~Has(image, s_uri)
           THEN /\ index' = index + 1
                /\ UNCHANGED <<description, source_files, bin_length, pc, exc, dest>>
           ELSE IF Unsupported(uri)
           THEN /\ RaiseInPack(UnsupportedReferenceError)
                /\ UNCHANGED <<description, source_files, bin_length, index>>
           ELSE IF ~Exists(uri.path)
           THEN /\ source_files' = Append(source_files, uri.path)
                /\ RaiseInPack(FileNotFoundError)
                /\ UNCHANGED <<description, bin_length, index>>
           ELSE LET image_size == getsize(uri.path)
                    views == Append(bufferViews, ImageView(image_size, bin_length))
                    imgs  == [images EXCEPT
                                ![index + 1] = RewriteImage(image, Len(bufferViews))]
                IN  /\ source_files' = Append(source_files, uri.path)
                    /\ description' = Set(Set(description, s_bufferViews, views),
                                          s_images, imgs)
                    /\ bin_length' = image_size
                    /\ index' = index + 1
                    /\ UNCHANGED <<pc, exc, dest>>
    /\ UNCHANGED <<gltf, buffer_offsets, log, run, prev>>

\* PackImage that puts the image's path first in source_files
PackImagePrepends ==
    /\ pc = "_pack_images"
    /\ index < Len(images)
    /\ LET image == images[index + 1]
           uri   == urlparse(Get(image, s_uri))
       IN  IF ~Has(image, s_uri)
           THEN /\ index' = index + 1
                /\ UNCHANGED <<description, source_files, bin_length, pc, exc, dest>>
           ELSE IF Unsupported(uri)
           THEN /\ RaiseInPack(UnsupportedReferenceError)
                /\ UNCHANGED <<description, source_files, bin_length, index>>
           ELSE IF ~Exists(uri.path)
           THEN /\ source_files' = <<uri.path>> \o source_files
                /\ RaiseInPack(FileNotFoundError)
                /\ UNCHANGED <<description, bin_length, index>>
           ELSE LET image_size == getsize(uri.path)
                    views == Append(bufferViews, ImageView(image_size, bin_length))
                    imgs  == [images EXCEPT
                                ![index + 1] = RewriteImage(image, Len(bufferViews))]
                IN  /\ source_files' = <<uri.path>> \o source_files
                    /\ description' = Set(Set(description, s_bufferViews, views),
                                          s_images, imgs)
                    /\ bin_length' = IntAdd(bin_length, image_size)
                    /\ index' = index + 1
                    /\ UNCHANGED <<pc, exc, dest>>
    /\ UNCHANGED <<gltf, buffer_offsets, log, run, prev>>

\* one iteration of the loop over the images
PackImage ==
    /\ pc = "_pack_images"
    /\ index < Len(images)
    /\ LET image == images[index + 1]
           uri   == urlparse(Get(image, s_uri))
       IN  IF ~Has(image, s_uri)
           THEN /\ index' = index + 1
                /\ UNCHANGED <<description, source_files, bin_length, pc, exc, dest>>
           ELSE IF Unsupported(uri)
           THEN /\ RaiseInPack(UnsupportedReferenceError)
                /\ UNCHANGED <<description, source_files, bin_length, index>>
           ELSE IF ~Exists(uri.path)
           THEN \* os.path.getsize raises after the path is recorded
                /\ source_files' = Append(source_files, uri.path)
                /\ RaiseInPack(FileNotFoundError)
                /\ UNCHANGED <<description, bin_length, index>>
           ELSE LET image_size == getsize(uri.path)
                    views == Append(bufferViews, ImageView(image_size, bin_length))
                    imgs  == [images EXCEPT
                                ![index + 1] = RewriteImage(image, Len(bufferViews))]
                IN  /\ source_files' = Append(source_files, uri.path)
                    /\ description' = Set(Set(description, s_bufferViews, views),
                                          s_images, imgs)
                    /\ bin_length' = IntAdd(bin_length, image_size)
                    /\ index' = index + 1
                    /\ UNCHANGED <<pc, exc, dest>>
    /\ UNCHANGED <<gltf, buffer_offsets, log, run, prev>>

(***************************************************************************)
(* GLB.pack, after the two loops                                           *)
(***************************************************************************)
\* ExceedsCapacity with >= for >
ExceedsCapacityOrEqual(length) == IntLE(U32_MAX, length)

\* the test of line 58
ExceedsCapacity(length) == IntLT(U32_MAX, length)

\* MergedBuffers with the aligned length
MergedBuffersAligned(length) ==
    << << <<s_byteLength, IntAndNot3(IntAdd(length, I(3)))>> >> >>

\* MergedBuffers that keeps a uri in the merged entry
MergedBuffersWithUri(length) == << << <<s_byteLength, length>>, <<s_uri, p_a_bin>> >> >>

\* the value of line 56
MergedBuffers(length) == << << <<s_byteLength, length>> >> >>

Finalize ==
    /\ pc = "_pack_images"
    /\ index = Len(images)
    /\ description' = Set(description, s_buffers, MergedBuffers(bin_length))
    /\ log' = IF ExceedsCapacity(bin_length) THEN Append(log, CapacityWarning) ELSE log
    /\ pc' = "open"
    /\ UNCHANGED <<gltf, bin_length, source_files, buffer_offsets, index, exc, dest,
                   run, prev>>

(***************************************************************************)
(* pack(): the destination is opened once GLB.pack() has returned          *)
(***************************************************************************)
OpenDest ==
    /\ pc = "open"
    /\ dest' = [exists |-> TRUE, open |-> TRUE, data |-> <<>>]
    /\ pc' = "write_header"
    /\ UNCHANGED <<gltf, description, bin_length, source_files, buffer_offsets, index,
                   exc, log, run, prev>>

(***************************************************************************)
(* GLB.write                                                               *)
(***************************************************************************)
description_json == JsonDumps(description)

aligned_json_length == align_to_4(I(Len(description_json)))

json_padding ==
    Repeat(Ord[" "], Small(IntSub(aligned_json_length, I(Len(description_json)))))

aligned_bin_length == align_to_4(bin_length)

bin_padding == Repeat(0, Small(IntSub(aligned_bin_length, bin_length)))

\* line 134
length == IntSum(<<I(12), I(8), aligned_json_length, I(8), aligned_bin_length>>)

MAGIC == Encode(<<"g", "l", "T", "F">>)

JSON_TYPE == Encode(<<"J", "S", "O", "N">>)

BIN_TYPE == Encode(<<"B", "I", "N">>) \o <<0>>

VERSION == 2

Write(bytes) == dest' = [dest EXCEPT !.data = dest.data \o bytes]

\* lines 130-135: magic, version, length
WriteHeader ==
    /\ pc = "write_header"
    /\ IF FitsU32(length)
       THEN /\ Write(MAGIC \o to_bytes(I(VERSION)) \o to_bytes(length))
            /\ pc' = "write_json"
            /\ exc' = exc
       ELSE \* length.to_bytes raises after the magic and the version are written
            /\ dest' = [dest EXCEPT !.data = dest.data \o MAGIC \o to_bytes(I(VERSION)),
                                    !.open = FALSE]
            /\ exc' = ToBytesError(length)
            /\ pc' = "write_raised"
    /\ UNCHANGED <<gltf, description, bin_length, source_files, buffer_offsets, index,
                   log, run, prev>>

\* JsonChunk with the type before the length
JsonChunkTypeFirst ==
    JSON_TYPE \o to_bytes(aligned_json_length) \o description_json \o json_padding

\* lines 139-144: the JSON chunk
JsonChunk ==
    to_bytes(aligned_json_length) \o JSON_TYPE \o description_json \o json_padding

WriteJsonChunk ==
    /\ pc = "write_json"
    /\ Write(JsonChunk)
    /\ pc' = "write_bin"
    /\ UNCHANGED <<gltf, description, bin_length, source_files, buffer_offsets, index,
                   exc, log, run, prev>>

\* lines 148-150: the BIN chunk's length and type
BinChunkHeader == to_bytes(aligned_bin_length) \o BIN_TYPE

WriteBinHeader ==
    /\ pc = "write_bin"
    /\ IF FitsU32(aligned_bin_length)
       THEN /\ Write(BinChunkHeader)
            /\ pc' = "write_files"
            /\ index' = 0
            /\ exc' = exc
       ELSE \* aligned_bin_length.to_bytes raises before anything of the chunk is written
            /\ RaiseInWrite(ToBytesError(aligned_bin_length))
            /\ index' = index
    /\ UNCHANGED <<gltf, description, bin_length, source_files, buffer_offsets,
                   log, run, prev>>

\* lines 152-158: one source file
WriteSourceFile ==
    /\ pc = "write_files"
    /\ index < Len(source_files)
    /\ IF Exists(source_files[index + 1])
       THEN /\ Write(ReadBlocks(source_dir[source_files[index + 1]]))
            /\ index' = index + 1
            /\ UNCHANGED <<pc, exc>>
       ELSE /\ RaiseInWrite(FileNotFoundError)
            /\ index' = index
    /\ UNCHANGED <<gltf, description, bin_length, source_files, buffer_offsets,
                   log, run, prev>>

\* line 159, and the close of line 165's with block
WritePadding ==
    /\ pc = "write_files"
    /\ index = Len(source_files)
    /\ dest' = [dest EXCEPT !.data = dest.data \o bin_padding, !.open = FALSE]
    /\ pc' = "done"
    /\ UNCHANGED <<gltf, description, bin_length, source_files, buffer_offsets, index,
                   exc, log, run, prev>>

(***************************************************************************)
(* main(), invoked a second time on the same input file and directory      *)
(***************************************************************************)
Rerun ==
    /\ pc \in {"done", "pack_raised", "write_raised"}
    /\ run = 1
    /\ prev' = [exc |-> exc, dest |-> dest, log |-> log]
    /\ run' = 2
    /\ GLB__init__(gltf)
    /\ buffer_offsets' = <<>>
    /\ pc' = "_pack_buffers"
    /\ index' = 0
    /\ exc' = NoExc
    /\ log' = <<>>
    /\ UNCHANGED <<gltf, dest>>

Next ==
    \/ PackBuffer
    \/ RewriteBufferViews
    \/ PackImage
    \/ Finalize
    \/ OpenDest
    \/ WriteHeader
    \/ WriteJsonChunk
    \/ WriteBinHeader
    \/ WriteSourceFile
    \/ WritePadding
    \/ Rerun

Spec == Init /\ [][Next]_vars

(***************************************************************************)
(* align_to_4 over a range of byte counts: descriptions whose one buffer   *)
(* (index 0, no uri) declares the byte count, with or without an image, so *)
(* that write() aligns every count of the range.                           *)
(***************************************************************************)
\* the largest of the small byte counts
AlignMax == 24

\* the byte counts 0..AlignMax and those around 2^16, 2^17 and 2^32
AlignCounts ==
    {I(n) : n \in 0..AlignMax} \cup
    {<<h, l>> : h \in {0, 1, LIMB - 1}, l \in (LIMB - 5)..(LIMB - 1)} \cup
    {<<h, l>> : h \in {1, 2}, l \in 0..4}

AlignDescriptions ==
    { << <<s_asset, << <<s_version, <<"2", ".", "0">> >> >> >>,
         <<s_buffers, << << <<s_byteLength, n>> >> >> >>,
         <<s_bufferViews, <<>> >>, <<s_images, is>> >> :
        <<n, is>> \in AlignCounts \X
                      { <<>>, << << <<s_uri, p_empty_png>> >> >>,
                        << << <<s_uri, p_pic_png>>, <<s_mimeType, m_png>> >> >> } }

AlignInit ==
    /\ gltf \in AlignDescriptions
    /\ description = gltf
    /\ bin_length = I(0)
    /\ source_files = <<>>
    /\ buffer_offsets = <<>>
    /\ pc = "_pack_buffers"
    /\ index = 0
    /\ exc = NoExc
    /\ log = <<>>
    /\ dest = NoFile
    /\ run = 1
    /\ prev = [exc |-> NoExc, dest |-> NoFile, log |-> <<>>]

AlignSpec == AlignInit /\ [][Next]_vars

(***************************************************************************)
(* pack() called again, by the same caller, on the description that a      *)
(* completed pack()+write() has left: a fresh GLB (lines 163, 46-50) over  *)
(* the packed description and the same source directory.                   *)
(***************************************************************************)
Repack ==
    /\ pc = "done"
    /\ run = 1
    /\ prev' = [exc |-> exc, dest |-> dest, log |-> log]
    /\ run' = 3
    /\ gltf' = description
    /\ GLB__init__(description)
    /\ buffer_offsets' = <<>>
    /\ pc' = "_pack_buffers"
    /\ index' = 0
    /\ exc' = NoExc
    /\ log' = <<>>
    /\ UNCHANGED dest

RepackNext == Next \/ Repack

RepackSpec == Init /\ [][RepackNext]_vars

(***************************************************************************)
(* Properties                                                              *)
(***************************************************************************)
in_buffers == Get(gltf, s_buffers)
in_bufferViews == Get(gltf, s_bufferViews)
in_images == Get(gltf, s_images)

\* GLB.pack() has returned
PackCompleted ==
    pc \in {"open", "write_header", "write_json", "write_bin", "write_files", "done",
            "write_raised"}

Terminated == pc \in {"done", "pack_raised", "write_raised"}

ByteOffsetOf(view) == IF Has(view, s_byteOffset) THEN Get(view, s_byteOffset) ELSE I(0)

ViewEnd(view) == IntAdd(ByteOffsetOf(view), Get(view, s_byteLength))

\* every input bufferView names a buffer of the input
ViewsNameBuffers ==
    \A n \in 1..Len(in_bufferViews) :
        IntLT(Get(in_bufferViews[n], s_buffer), I(Len(in_buffers)))

SingleMergedBuffer ==
    /\ Len(buffers) = 1
    /\ \A n \in 1..Len(bufferViews) : Get(bufferViews[n], s_buffer) = I(0)

\* C1 as stated: whenever pack() completes, buffers has one entry and every
\* bufferView has buffer 0.
C1_AsStated == PackCompleted => SingleMergedBuffer

\* C1, amended: when every input bufferView names an existing input buffer and
\* pack() completes, buffers has exactly one entry and every bufferView (old and
\* appended) has buffer 0.
C1_SingleMergedBuffer == (PackCompleted /\ ViewsNameBuffers) => SingleMergedBuffer

C1_Witness ==
    /\ PackCompleted
    /\ ViewsNameBuffers
    /\ \E n \in 1..Len(in_bufferViews) : Get(in_bufferViews[n], s_buffer) # I(0)

\* the bufferView at n was rewritten by _pack_buffers: it named a buffer with a uri
Rewritten(n) ==
    /\ n <= Len(in_bufferViews)
    /\ IntLT(Get(in_bufferViews[n], s_buffer), I(Len(in_buffers)))
    /\ Has(in_buffers[Small(Get(in_bufferViews[n], s_buffer)) + 1], s_uri)

\* the bufferView at n was appended by _pack_images
Appended(n) == n > Len(in_bufferViews)

\* the input bufferView at n lies within the declared length of the buffer it names
WithinBuffer(n) ==
    IntLE(ViewEnd(in_bufferViews[n]),
          Get(in_buffers[Small(Get(in_bufferViews[n], s_buffer)) + 1], s_byteLength))

\* the declared lengths of the input buffers plus the sizes of the packed images' files
TotalBytes ==
    IntAdd(IntSum([n \in 1..Len(in_buffers) |-> Get(in_buffers[n], s_byteLength)]),
           IntSum([n \in 1..Len(in_images) |->
                     IF Has(in_images[n], s_uri)
                     THEN getsize(urlparse(Get(in_images[n], s_uri)).path)
                     ELSE I(0)]))

\* no input buffer declares a negative byteLength
NonNegativeLengths ==
    \A n \in 1..Len(in_buffers) : IntLE(I(0), Get(in_buffers[n], s_byteLength))

\* C2 as stated: after a successful pack every rewritten and every appended
\* bufferView has 0 <= byteOffset < N and byteOffset + byteLength <= N.
C2_AsStated ==
    PackCompleted =>
        \A n \in 1..Len(bufferViews) :
            (Rewritten(n) \/ Appended(n)) =>
                /\ IntLE(I(0), ByteOffsetOf(bufferViews[n]))
                /\ IntLT(ByteOffsetOf(bufferViews[n]), TotalBytes)
                /\ IntLE(ViewEnd(bufferViews[n]), TotalBytes)

\* C2, amended: after a successful pack of a description whose buffers all declare
\* a byteLength >= 0, with N the declared lengths of all input buffers plus the
\* measured sizes of the packed images, every appended bufferView and every
\* rewritten bufferView whose input range lay within its buffer has
\* 0 <= byteOffset <= N and byteOffset + byteLength <= N, and byteOffset < N when
\* its byteLength is positive.
C2_OffsetsWithinMerged ==
    (PackCompleted /\ NonNegativeLengths) =>
        \A n \in 1..Len(bufferViews) :
            ((Rewritten(n) /\ WithinBuffer(n)) \/ Appended(n)) =>
                /\ IntLE(I(0), ByteOffsetOf(bufferViews[n]))
                /\ IntLE(ByteOffsetOf(bufferViews[n]), TotalBytes)
                /\ IntLE(ViewEnd(bufferViews[n]), TotalBytes)
                /\ Get(bufferViews[n], s_byteLength) # I(0) =>
                       IntLT(ByteOffsetOf(bufferViews[n]), TotalBytes)

C2_Witness ==
    /\ PackCompleted
    /\ NonNegativeLengths
    /\ \E n \in 1..Len(bufferViews) : Rewritten(n) /\ WithinBuffer(n)
    /\ \E n \in 1..Len(bufferViews) :
          /\ Appended(n)
          /\ ByteOffsetOf(bufferViews[n]) # I(0)
          /\ Get(bufferViews[n], s_byteLength) # I(0)

(***************************************************************************)
(* The bytes of the destination file                                       *)
(***************************************************************************)
Out == dest.data

\* the little-endian unsigned 32-bit integer at the 1-based position pos of bytes d
U32At(d, pos) == <<d[pos + 2] + 256 * d[pos + 3], d[pos] + 256 * d[pos + 1]>>

MultipleOf4(v) == v[2] % 4 = 0

\* the smallest multiple of 4 that is >= n: n + ((4 - (n mod 4)) mod 4)
RoundUp4(n) == IntAdd(n, I((4 - (n[2] % 4)) % 4))

\* the fields of the file, once they are there
TotalLengthField == U32At(Out, 9)
JsonLengthField == U32At(Out, 13)
JsonEnd == 20 + Small(JsonLengthField)
BinLengthField == U32At(Out, JsonEnd + 1)
BinData == SubSeq(Out, JsonEnd + 9, Len(Out))

\* the bytes of the first k files of SourceFileList, in order
SourceBytes(k) == Flatten([n \in 1..k |-> source_dir[source_files[n]]])

\* C3: the jsonChunkLength and binChunkLength that write() emits are multiples of
\* 4, the totalLength it emits is 12 + 8 + jsonChunkLength + 8 + binChunkLength,
\* and a write() that completes has emitted all three.
C3_Alignment ==
    /\ Len(Out) >= 16 => MultipleOf4(JsonLengthField)
    /\ (Len(Out) >= 16 /\ Len(Out) >= JsonEnd + 4) =>
          /\ MultipleOf4(BinLengthField)
          /\ TotalLengthField =
                IntSum(<<I(12), I(8), JsonLengthField, I(8), BinLengthField>>)
    /\ pc = "done" => (Len(Out) >= 16 /\ Len(Out) >= JsonEnd + 4)

C3_Witness ==
    /\ pc = "done"
    /\ ~MultipleOf4(bin_length)
    /\ Len(description_json) % 4 # 0
    /\ BinLengthField # I(0)

\* C4 as stated: in the file of a completed pack()+write() the BIN chunk data is
\* binChunkLength bytes long, the file is totalLength bytes long, and the data is
\* the bytes of the SourceFileList files in order followed by zero padding.
C4_AsStated ==
    pc = "done" =>
        /\ I(Len(BinData)) = BinLengthField
        /\ I(Len(Out)) = TotalLengthField
        /\ \E k \in 0..3 : BinData = SourceBytes(Len(source_files)) \o Repeat(0, k)

\* the entry carries a uri with a scheme or a host component
BadUri(entry) ==
    /\ Has(entry, s_uri)
    /\ \/ urlparse(Get(entry, s_uri)).scheme # <<>>
       \/ urlparse(Get(entry, s_uri)).netloc # <<>>

HasBadUri ==
    \/ \E n \in 1..Len(in_buffers) : BadUri(in_buffers[n])
    \/ \E n \in 1..Len(in_images) : BadUri(in_images[n])

\* what the n-th input buffer and the n-th input image fail with, taken alone
BufferFault(n) ==
    IF BadUri(in_buffers[n]) THEN UnsupportedReferenceError
    ELSE IF ~Has(in_buffers[n], s_uri) /\ n > 1 THEN MalformedDescriptionError
    ELSE NoExc

ImageFault(n) ==
    IF BadUri(in_images[n]) THEN UnsupportedReferenceError
    ELSE IF Has(in_images[n], s_uri) /\ Get(in_images[n], s_uri) \notin DOMAIN source_dir
    THEN FileNotFoundError
    ELSE NoExc

\* the fault of the first failing entry in processing order: the buffers in array
\* order, then the images in array order
Faults ==
    [n \in 1..Len(in_buffers) |-> BufferFault(n)] \o
    [n \in 1..Len(in_images) |-> ImageFault(n)]

FirstFault ==
    IF \E n \in 1..Len(Faults) : Faults[n] # NoExc
    THEN Faults[CHOOSE n \in 1..Len(Faults) :
                   Faults[n] # NoExc /\ \A m \in 1..(n - 1) : Faults[m] = NoExc]
    ELSE NoExc

\* C5 as stated: with a uri that carries a scheme or a host, packing fails with the
\* unsupported-reference error before the destination is opened.
C5_AsStated ==
    HasBadUri =>
        /\ dest = NoFile
        /\ ~PackCompleted
        /\ Terminated => (pc = "pack_raised" /\ exc = UnsupportedReferenceError)

\* C5, amended: with a uri that carries a scheme or a host, at whichever buffer or
\* image position, packing fails before the destination is opened, so no output
\* file is created or written; the error is that of the first failing entry in
\* processing order: the unsupported-reference error, unless an earlier entry
\* fails first (a buffer without uri at index > 0, an image whose file is missing).
C5_RejectsUnsupported ==
    HasBadUri =>
        /\ dest = NoFile
        /\ ~PackCompleted
        /\ Terminated => (pc = "pack_raised" /\ exc = FirstFault)
        /\ (Terminated /\ exc # UnsupportedReferenceError) =>
              exc \in {MalformedDescriptionError, FileNotFoundError}

C5_Witness ==
    /\ pc = "pack_raised"
    /\ exc = UnsupportedReferenceError
    /\ \E n \in 1..Len(in_images) : BadUri(in_images[n])
    /\ source_files # <<>>
    /\ dest = NoFile

NoUriAfterFirst == \E n \in 2..Len(in_buffers) : ~Has(in_buffers[n], s_uri)

\* C6 as stated: a buffer without uri at an index > 0 makes packing fail with the
\* malformed-description error before any output is written, and that error comes
\* only from such a buffer.
C6_AsStated ==
    /\ NoUriAfterFirst =>
          /\ dest = NoFile
          /\ ~PackCompleted
          /\ Terminated => (pc = "pack_raised" /\ exc = MalformedDescriptionError)
    /\ exc = MalformedDescriptionError => NoUriAfterFirst
    /\ MalformedDescriptionError # UnsupportedReferenceError

\* C6, amended: a buffer without uri is accepted only at index 0; one at an index
\* > 0 makes packing fail before any output is written, with the
\* malformed-description error unless an earlier buffer's uri is unsupported (then
\* with the unsupported-reference error); the two errors are the same GLTFError
\* class and differ in their message.
C6_OnlyFirstMayOmitUri ==
    /\ NoUriAfterFirst =>
          /\ dest = NoFile
          /\ ~PackCompleted
          /\ Terminated =>
                /\ pc = "pack_raised"
                /\ LET k == CHOOSE n \in 2..Len(in_buffers) :
                               /\ ~Has(in_buffers[n], s_uri)
                               /\ \A m \in 2..(n - 1) : Has(in_buffers[m], s_uri)
                   IN  exc = IF \E m \in 1..(k - 1) : BadUri(in_buffers[m])
                             THEN UnsupportedReferenceError
                             ELSE MalformedDescriptionError
    /\ exc = MalformedDescriptionError => NoUriAfterFirst
    /\ MalformedDescriptionError.cls = UnsupportedReferenceError.cls
    /\ MalformedDescriptionError.msg # UnsupportedReferenceError.msg

C6_Witness ==
    /\ pc = "pack_raised"
    /\ exc = MalformedDescriptionError
    /\ ~Has(in_buffers[1], s_uri)
    /\ index = 1
    /\ bin_length # I(0)
    /\ dest = NoFile

C8_AsStated ==
    (PackCompleted /\ IntLE(U32_MAX, TotalBytes)) => log = <<CapacityWarning>>

\* C8, amended: pack() reports a capacity warning exactly when the final merged
\* length is > 2^32 - 1 (at exactly 2^32 - 1 it reports none), and the condition is
\* never a failure of pack(): pack() raises only for an unsupported uri, a buffer
\* without uri at an index > 0 or an image file it cannot measure.
C8_WarnsAboveCapacity ==
    /\ PackCompleted => (log = <<CapacityWarning>> <=> IntLT(U32_MAX, TotalBytes))
    /\ PackCompleted => (log = <<>> <=> IntLE(TotalBytes, U32_MAX))
    /\ pc = "pack_raised" => (exc = FirstFault /\ exc # NoExc)

C8_Witness ==
    /\ PackCompleted
    /\ IntLT(U32_MAX, TotalBytes)
    /\ bin_length = TotalBytes
    /\ log = <<CapacityWarning>>

\* C9: write() emits, in this order and with nothing in between, the magic, the
\* version 2, totalLength, jsonChunkLength, the JSON type tag, the compact JSON of
\* the final description padded with 0 to 3 spaces to jsonChunkLength bytes,
\* binChunkLength, the BIN type tag and the BIN data; every integer is 4 bytes,
\* little-endian, so the first six fields start at offsets 0, 4, 8, 12, 16 and 20.
C9_Layout ==
    LET json == JsonDumps(description)
        jlen == RoundUp4(I(Len(json)))
        blen == RoundUp4(bin_length)
        n    == Small(jlen)
    IN  /\ pc = "write_header" => Out = <<>>
        /\ pc = "write_json" => Len(Out) = 12
        /\ pc = "write_bin" => Len(Out) = 20 + n
        /\ pc \in {"write_json", "write_bin", "write_files", "done"} =>
              /\ SubSeq(Out, 1, 4) = <<103, 108, 84, 70>>
              /\ SubSeq(Out, 5, 8) = <<2, 0, 0, 0>>
              /\ U32At(Out, 9) = IntSum(<<I(12), I(8), jlen, I(8), blen>>)
        /\ pc \in {"write_bin", "write_files", "done"} =>
              /\ U32At(Out, 13) = jlen
              /\ SubSeq(Out, 17, 20) = <<74, 83, 79, 78>>
              /\ n - Len(json) \in 0..3
              /\ SubSeq(Out, 21, 20 + n) = json \o Repeat(32, n - Len(json))
        /\ pc \in {"write_files", "done"} =>
              /\ U32At(Out, 21 + n) = blen
              /\ SubSeq(Out, 25 + n, 28 + n) = <<66, 73, 78, 0>>
        /\ pc = "write_files" => SubSeq(Out, 29 + n, Len(Out)) = SourceBytes(index)
        /\ pc = "done" =>
              SubSeq(Out, 29 + n, Len(Out)) =
                  SourceBytes(Len(source_files)) \o
                  Repeat(0, Small(IntSub(blen, bin_length)))

C9_Witness ==
    /\ pc = "done"
    /\ Len(JsonDumps(description)) % 4 # 0
    /\ Len(source_files) >= 2
    /\ Len(Out) > 28 + Small(JsonLengthField)

C10_Input ==
    /\ in_buffers = << << <<s_byteLength, I(6)>>, <<s_uri, p_a_bin>> >> >>
    /\ in_images = <<>>

\* C10: for buffers = [{byteLength: 6, uri: "a.bin"}] and no images, with a.bin of
\* 6 bytes, packing succeeds and yields buffers = [{byteLength: 6}], a
\* binChunkLength of 8 and a totalLength of 12 + 8 + alignedJsonLen + 8 + 8.
C10_Scenario ==
    C10_Input =>
        /\ Len(source_dir[p_a_bin]) = 6
        /\ pc \notin {"pack_raised", "write_raised"}
        /\ PackCompleted => buffers = << << <<s_byteLength, I(6)>> >> >>
        /\ pc = "done" =>
              /\ BinLengthField = I(8)
              /\ JsonLengthField = RoundUp4(I(Len(JsonDumps(description))))
              /\ TotalLengthField =
                    IntSum(<<I(12), I(8), RoundUp4(I(Len(JsonDumps(description)))),
                             I(8), I(8)>>)

C10_Witness ==
    /\ C10_Input
    /\ pc = "done"
    /\ in_bufferViews # <<>>

(***************************************************************************)
(* What pack() changes in the description                                  *)
(***************************************************************************)
KeysOf(d) == {d[n][1] : n \in 1..Len(d)}

\* dicts d and e have the same keys with the same values, the keys in ks aside
SameExcept(d, e, ks) ==
    \A k \in (KeysOf(d) \cup KeysOf(e)) \ ks :
        Has(d, k) /\ Has(e, k) /\ Get(d, k) = Get(e, k)

UriImages == {n \in 1..Len(in_images) : Has(in_images[n], s_uri)}

\* C11: a successful pack changes nothing in the description but the buffers array,
\* the buffer and byteOffset of the rewritten bufferViews, the bufferViews appended
\* for images and the uri and bufferView of the images that carried a uri: every
\* other top-level field, every other key of a bufferView or image (mimeType
\* included) and every image without uri is as in the input.
C11_FrameEffect ==
    PackCompleted =>
        /\ SameExcept(gltf, description, {s_buffers, s_bufferViews, s_images})
        /\ Has(description, s_bufferViews) /\ Has(description, s_images)
        /\ Len(bufferViews) = Len(in_bufferViews) + Cardinality(UriImages)
        /\ \A n \in 1..Len(in_bufferViews) :
              IF Rewritten(n)
              THEN SameExcept(in_bufferViews[n], bufferViews[n], {s_buffer, s_byteOffset})
              ELSE bufferViews[n] = in_bufferViews[n]
        /\ Len(images) = Len(in_images)
        /\ \A n \in 1..Len(in_images) :
              IF n \in UriImages
              THEN SameExcept(in_images[n], images[n], {s_uri, s_bufferView})
              ELSE images[n] = in_images[n]

C11_Witness ==
    /\ PackCompleted
    /\ \E n \in UriImages : Has(in_images[n], s_mimeType) /\ Has(images[n], s_mimeType)
    /\ \E n \in 1..Len(in_images) : n \notin UriImages
    /\ in_bufferViews # <<>>

\* the sum of the byteLength of the input buffers at the 0-based indices < i
OffsetBefore(i) == IntSum([n \in 1..i |-> Get(in_buffers[n], s_byteLength)])

\* C12: in the Buffer Consolidator the assigned offset of the buffer with a uri at
\* index i is the sum of the byteLength of the buffers at indices < i (a buffer
\* without uri at index 0 counts with its byteLength and has no assigned offset),
\* and after the loop the counter is the sum of the byteLength of all buffers.
C12_AssignedOffsets ==
    pc = "_pack_buffers" =>
        /\ DOMAIN buffer_offsets = {i \in 0..(index - 1) : Has(in_buffers[i + 1], s_uri)}
        /\ \A i \in DOMAIN buffer_offsets : buffer_offsets[i] = OffsetBefore(i)
        /\ bin_length = OffsetBefore(index)
        /\ index = Len(in_buffers) => bin_length = OffsetBefore(Len(in_buffers))
        /\ Len(source_files) = Cardinality(DOMAIN buffer_offsets)

C12_Witness ==
    /\ pc = "_pack_buffers"
    /\ index = Len(in_buffers)
    /\ index >= 2
    /\ ~Has(in_buffers[1], s_uri)
    /\ 1 \in DOMAIN buffer_offsets
    /\ buffer_offsets[1] # I(0)
    /\ bin_length # buffer_offsets[1]

\* C13: after the Buffer Consolidator exactly the bufferViews that named a buffer
\* with a uri are rewritten, each once: byteOffset = (old byteOffset or 0) + the
\* buffer's assigned offset and buffer = 0; every other view, one naming the
\* buffer without uri at index 0 included, is as in the input (an absent
\* byteOffset stays absent). No view is rewritten before the buffer loop ends.
C13_RewrittenViews ==
    /\ pc = "_pack_buffers" => bufferViews = in_bufferViews
    /\ (pc = "_pack_images" \/ PackCompleted) =>
          \A n \in 1..Len(in_bufferViews) :
              IF Rewritten(n)
              THEN /\ Get(bufferViews[n], s_buffer) = I(0)
                   /\ Has(bufferViews[n], s_byteOffset)
                   /\ Get(bufferViews[n], s_byteOffset) =
                          IntAdd(ByteOffsetOf(in_bufferViews[n]),
                                 OffsetBefore(Small(Get(in_bufferViews[n], s_buffer))))
              ELSE bufferViews[n] = in_bufferViews[n]

C13_Witness ==
    /\ pc = "_pack_images"
    /\ \E n \in 1..Len(in_bufferViews) :
          /\ Rewritten(n)
          /\ Get(in_bufferViews[n], s_buffer) # I(0)
          /\ Get(bufferViews[n], s_byteOffset) # ByteOffsetOf(in_bufferViews[n])
    /\ ~Has(in_buffers[1], s_uri)

\* the measured size of the file of the uri image at n
ImageSize(n) == I(Len(source_dir[urlparse(Get(in_images[n], s_uri)).path]))

\* the sum of all buffers' byteLength plus the sizes of the uri images before n
ImageOffset(n) ==
    IntAdd(OffsetBefore(Len(in_buffers)),
           IntSum([m \in 1..(n - 1) |-> IF m \in UriImages THEN ImageSize(m) ELSE I(0)]))

\* the index of the view appended for the uri image at n: the original number of
\* bufferViews plus the number of uri images before it
ImageViewIndex(n) == Len(in_bufferViews) + Cardinality({m \in UriImages : m < n})

C14_Input ==
    /\ in_buffers = << << <<s_byteLength, I(4)>>, <<s_uri, p_buf_bin>> >> >>
    /\ in_images = << << <<s_uri, p_pic_png>>, <<s_mimeType, m_png>> >> >>

\* C14: for the k-th image with a uri the Image Consolidator appends one bufferView
\* {buffer: 0, byteLength: file size, byteOffset: sum of all buffers' byteLength +
\* the sizes of the earlier uri images}, sets the image's bufferView to the original
\* number of bufferViews + k and removes its uri. One 4-byte buffer plus one 10-byte
\* image gives merged length 14 (aligned 16) and an image view at the original
\* bufferViews length with byteOffset 4 and byteLength 10.
C14_ImageViews ==
    /\ \A n \in UriImages :
          (PackCompleted \/ (pc = "_pack_images" /\ n <= index)) =>
              /\ ~Has(images[n], s_uri)
              /\ Get(images[n], s_bufferView) = I(ImageViewIndex(n))
              /\ bufferViews[ImageViewIndex(n) + 1] =
                    << <<s_buffer, I(0)>>, <<s_byteLength, ImageSize(n)>>,
                       <<s_byteOffset, ImageOffset(n)>> >>
    /\ PackCompleted => Len(bufferViews) = Len(in_bufferViews) + Cardinality(UriImages)
    /\ C14_Input =>
          /\ Len(source_dir[p_buf_bin]) = 4 /\ Len(source_dir[p_pic_png]) = 10
          /\ pc \notin {"pack_raised", "write_raised"}
          /\ PackCompleted =>
                /\ bin_length = I(14)
                /\ buffers = << << <<s_byteLength, I(14)>> >> >>
                /\ Get(images[1], s_bufferView) = I(Len(in_bufferViews))
                /\ Get(bufferViews[Len(in_bufferViews) + 1], s_byteOffset) = I(4)
                /\ Get(bufferViews[Len(in_bufferViews) + 1], s_byteLength) = I(10)
          /\ pc = "done" => BinLengthField = I(16)

C14_Witness ==
    /\ pc = "done"
    /\ in_buffers = << << <<s_byteLength, I(4)>>, <<s_uri, p_buf_bin>> >> >>
    /\ Cardinality(UriImages) = 2
    /\ in_images[1] = << <<s_uri, p_pic_png>>, <<s_mimeType, m_png>> >>
    /\ Get(bufferViews[2], s_byteOffset) = I(14)

IsPrefix(a, b) == Len(a) <= Len(b) /\ SubSeq(b, 1, Len(a)) = a

\* the paths of the uri-carrying entries of l, in array order
PathsOf(l) ==
    Flatten([n \in 1..Len(l) |->
                IF Has(l[n], s_uri) THEN <<urlparse(Get(l[n], s_uri)).path>> ELSE <<>>])

\* C15: SourceFileList is append-only during packing; at every moment it is a
\* prefix of the paths of the uri buffers in input order followed by the paths of
\* the uri images in input order (so no image path precedes a buffer path), and
\* after a successful pack it is exactly that sequence.
C15_SourceFileOrder ==
    /\ [](/\ IsPrefix(source_files, PathsOf(in_buffers) \o PathsOf(in_images))
          /\ pc = "_pack_buffers" => IsPrefix(source_files, PathsOf(in_buffers))
          /\ (pc = "_pack_images" \/ PackCompleted) =>
                IsPrefix(PathsOf(in_buffers), source_files)
          /\ PackCompleted => source_files = PathsOf(in_buffers) \o PathsOf(in_images))
    /\ [][run' = run => IsPrefix(source_files, source_files')]_vars

C15_Witness ==
    /\ PackCompleted
    /\ PathsOf(in_buffers) # <<>>
    /\ Len(PathsOf(in_images)) >= 2
    /\ source_files[2] # source_files[3]

\* C16: after a successful pack buffers is the one-element array [{byteLength: L}],
\* without uri, where L is the final counter = the sum of the byteLength of the
\* input buffers + the sum of the sizes of the uri images; write() aligns the same L
\* to get binChunkLength.
C16_MergedLength ==
    PackCompleted =>
        /\ Len(buffers) = 1
        /\ KeysOf(buffers[1]) = {s_byteLength}
        /\ Get(buffers[1], s_byteLength) = TotalBytes
        /\ bin_length = TotalBytes
        /\ aligned_bin_length = RoundUp4(TotalBytes)
        /\ pc \in {"write_files", "done"} => BinLengthField = RoundUp4(TotalBytes)

C16_Witness ==
    /\ pc = "done"
    /\ Len(in_buffers) >= 2
    /\ \E n \in UriImages : ImageSize(n) # I(0)
    /\ BinLengthField # TotalBytes

\* C17 as stated: for every description the packer accepts, no step of packing
\* decreases the counter, and its value when packing completes is the final
\* payload length (the byteLength of the merged buffer).
C17_AsStated ==
    /\ [](PackCompleted => Get(buffers[1], s_byteLength) = bin_length)
    /\ [][run' = run => IntLE(bin_length, bin_length')]_vars

\* C17, amended: for every accepted description whose buffers all declare a
\* byteLength >= 0, no step of packing (buffer step, image step or any other)
\* decreases the counter, it starts at 0, and its value when packing completes is
\* the final payload length: the byteLength of the merged buffer, which write()
\* aligns, unchanged from then on.
C17_Monotonic ==
    /\ [](/\ PackCompleted => Get(buffers[1], s_byteLength) = bin_length
          /\ NonNegativeLengths => IntLE(I(0), bin_length))
    /\ [][(run' = run /\ NonNegativeLengths) => IntLE(bin_length, bin_length')]_vars
    /\ [][(run' = run /\ PackCompleted) => bin_length' = bin_length]_vars

C17_Witness ==
    /\ PackCompleted
    /\ NonNegativeLengths
    /\ OffsetBefore(Len(in_buffers)) # I(0)
    /\ bin_length # OffsetBefore(Len(in_buffers))
    /\ Len(in_buffers) >= 2

\* C18: for every byte count n >= 0 that write() aligns (the counter and the length
\* of the JSON text), align_to_4(n) = n + ((4 - (n mod 4)) mod 4): a multiple of 4,
\* the smallest that is >= n, between n and n + 3, and n itself when n is a multiple
\* of 4; the binChunkLength and jsonChunkLength emitted are these values.
C18_AlignTo4 ==
    /\ \A n \in {bin_length, I(Len(JsonDumps(description)))} :
          IntLE(I(0), n) =>
              /\ align_to_4(n) = RoundUp4(n)
              /\ MultipleOf4(align_to_4(n))
              /\ IntLE(n, align_to_4(n))
              /\ IntLE(align_to_4(n), IntAdd(n, I(3)))
              /\ \A k \in 0..3 :
                    MultipleOf4(IntAdd(n, I(k))) => IntLE(align_to_4(n), IntAdd(n, I(k)))
              /\ MultipleOf4(n) => align_to_4(n) = n
    /\ pc \in {"write_bin", "write_files", "done"} =>
          JsonLengthField = RoundUp4(I(Len(JsonDumps(description))))
    /\ pc \in {"write_files", "done"} => BinLengthField = RoundUp4(bin_length)

C18_Witness ==
    /\ pc = "done"
    /\ bin_length[2] % 4 = 1
    /\ aligned_bin_length[1] = bin_length[1] + 1
    /\ BinLengthField = IntAdd(bin_length, I(3))

\* C19: when a source file cannot be read during write(), the failure propagates
\* (the run ends with it), the output file is closed, and the file holds what was
\* emitted before the failure and nothing more: the header, the JSON chunk, the BIN
\* chunk header and the files before the failing one, padding not included.
C19_ReadFailure ==
    (pc = "write_raised" /\ exc = FileNotFoundError) =>
        /\ index < Len(source_files)
        /\ source_files[index + 1] \notin DOMAIN source_dir
        /\ dest.exists /\ ~dest.open
        /\ Out = <<103, 108, 84, 70, 2, 0, 0, 0>> \o to_bytes(length) \o JsonChunk \o
                 BinChunkHeader \o SourceBytes(index)

C19_Witness ==
    /\ pc = "write_raised"
    /\ exc = FileNotFoundError
    /\ index >= 1
    /\ ~dest.open
    /\ Len(Out) > 28 + Small(JsonLengthField)

\* C20 as stated, for descriptions that declare no negative byteLength: whenever
\* pack() completes without a capacity warning, totalLength, jsonChunkLength and
\* binChunkLength are representable in 32 bits and write() does not fail on a
\* length field.
C20_AsStated ==
    (PackCompleted /\ log = <<>> /\ NonNegativeLengths) =>
        /\ FitsU32(length)
        /\ FitsU32(aligned_json_length)
        /\ FitsU32(aligned_bin_length)
        /\ exc.cls # "OverflowError"

\* the len bytes of d from the 0-based offset off on (-1 where d has no byte)
BytesAt(d, off, len) == [k \in 1..len |-> IF off + k <= Len(d) THEN d[off + k] ELSE -1]

\* the range of the BIN chunk data assigned to the uri buffer at n holds the bytes
\* of its file
BufferBytesInPlace(n) ==
    BytesAt(BinData, Small(OffsetBefore(n - 1)), Small(Get(in_buffers[n], s_byteLength)))
        = source_dir[urlparse(Get(in_buffers[n], s_uri)).path]

\* the range of the BIN chunk data that the view of the uri image at n names holds
\* the bytes of its file
ImageBytesInPlace(n) ==
    LET view == bufferViews[Small(Get(images[n], s_bufferView)) + 1]
    IN  BytesAt(BinData, Small(Get(view, s_byteOffset)), Small(Get(view, s_byteLength)))
            = source_dir[urlparse(Get(in_images[n], s_uri)).path]

\* C21 as stated, for descriptions that declare no negative byteLength: in the
\* output of a successful pack()+write() the BIN chunk data holds, in the range
\* assigned to each uri buffer ([assigned offset, assigned offset + byteLength)) and
\* in the range of each uri image's new bufferView, exactly the bytes of the file
\* named; a buffer without uri at index 0 and a declared byteLength that differs
\* from the file's size are included.
C21_AsStated ==
    (pc = "done" /\ NonNegativeLengths) =>
        /\ \A n \in 1..Len(in_buffers) : Has(in_buffers[n], s_uri) => BufferBytesInPlace(n)
        /\ \A n \in UriImages : ImageBytesInPlace(n)

\* some input buffer makes the Buffer Consolidator fail
BufferPhaseFails == \E n \in 1..Len(in_buffers) : BufferFault(n) # NoExc

\* C22: when the Buffer Consolidator fails (an unsupported uri, or a buffer without
\* uri at an index > 0), the description is exactly as on input: the buffer loop
\* changes nothing in it and the failure comes before any bufferView is rewritten,
\* so no bufferView, buffer or image has been modified.
C22_BufferFailureLeavesInput ==
    /\ pc = "_pack_buffers" => description = gltf
    /\ BufferPhaseFails =>
          /\ description = gltf
          /\ pc \in {"_pack_buffers", "pack_raised"}
          /\ pc = "pack_raised" =>
                exc \in {UnsupportedReferenceError, MalformedDescriptionError}

C22_Witness ==
    /\ pc = "pack_raised"
    /\ exc = MalformedDescriptionError
    /\ index >= 1
    /\ source_files # <<>>
    /\ \E n \in 1..Len(in_bufferViews) :
          Rewritten(n) /\ ~Has(in_bufferViews[n], s_byteOffset)
    /\ description = gltf

\* C23: packing is idempotent on the description: a fresh packer run on the
\* description a successful pack produced leaves it unchanged at every step and
\* when it completes: buffers stays [{byteLength: L}] with the same L, no bufferView
\* is rewritten or appended, no image is modified, SourceFileList stays empty and
\* the packer does not fail.
C23_Idempotent ==
    run = 3 =>
        /\ pc # "pack_raised"
        /\ source_files = <<>>
        /\ buffer_offsets = <<>>
        /\ description = gltf
        /\ bufferViews = in_bufferViews
        /\ images = in_images
        /\ Len(buffers) = 1
        /\ (pc = "_pack_images" \/ PackCompleted) =>
              bin_length = Get(in_buffers[1], s_byteLength)
        /\ PackCompleted => buffers = << << <<s_byteLength, bin_length>> >> >>

C23_Witness ==
    /\ run = 3
    /\ PackCompleted
    /\ description = gltf
    /\ bin_length # I(0)
    /\ in_images # <<>> /\ Has(in_images[1], s_mimeType)
    /\ Len(in_bufferViews) >= 2
    /\ ByteOffsetOf(in_bufferViews[2]) # I(0)
    /\ Has(in_bufferViews[1], s_byteOffset)

=============================================================================
